---- MODULE Spec2Model ----
(***************************************************************************)
(* A model of the Ollama conversation integration: the conversation agent  *)
(* (chat mode: agent.py, legacy single-prompt mode: __init__.py), the      *)
(* session store it keeps, the built-in intent fallback, and the HTTP      *)
(* client (api.py) with its error classification.                          *)
(*                                                                         *)
(* Python objects are modelled with a heap: the history of an agent maps a *)
(* conversation id to a reference, `heap` maps a reference to the list     *)
(* (chat mode) or dict (legacy mode) it denotes, so that                   *)
(* `messages = self.history[cid]` is an alias and `messages.append(...)`   *)
(* changes the stored object.                                              *)
(***************************************************************************)
EXTENDS Integers, Sequences, FiniteSets, TLC

\* ------------------------------------------------------------------ bounds
\* Number of events the host delivers in one behaviour: turns started,
\* scheduled polls and changes of the entity registry.
MaxEvents == 3

\* The host's concurrently running tasks (cooperative scheduling).
Turns == {"task1", "task2"}

\* ------------------------------------------------- inputs and environment
\* user_input.conversation_id is None.
NoId == 0
\* What the user says: the k-th event of the host, when it is a turn, carries
\* the k-th utterance, so that the utterances of a behaviour can be told apart.
Utterance(k) == CASE k = 1 -> "hello" [] k = 2 -> "lights?" [] OTHER -> "thanks"
\* The model server, as far as the agent sees it: the reply to a request is
\* decided by its last utterance, and the continuation token it issues in
\* legacy mode (result["context"]) is the accumulated context: the token it
\* was sent, extended by the prompt.
ReplyTo(text) ==
  CASE text = "hello" -> "hi there" [] text = "lights?" -> "all off" [] OTHER -> "welcome"
NoContext == <<>>
ContextAfter(context, prompt) == Append(context, prompt)
\* Exposed-entity snapshots the host may hold.
Snapshots == {"e0", "e1"}

\* ----------------------------------------------------------- const.py
DEFAULT_MODEL == "llama2:latest"
BANNER == "Ollama is running"

\* ------------------------------------------------ exception classes
\* The direct base class of every exception class the code raises or names.
Base(cls) ==
  CASE cls = "OllamaApiClientError" -> "Exception"
    [] cls = "OllamaApiClientCommunicationError" -> "OllamaApiClientError"
    [] cls = "OllamaApiClientAuthenticationError" -> "OllamaApiClientError"
    [] cls = "HomeAssistantError" -> "Exception"
    [] cls = "TemplateError" -> "HomeAssistantError"
    [] cls = "UpdateFailed" -> "HomeAssistantError"
    [] cls = "ConfigEntryNotReady" -> "HomeAssistantError"
    [] cls = "ApiError" -> "HomeAssistantError"
    [] cls = "ApiClientError" -> "ApiError"
    [] cls = "ApiCommError" -> "ApiError"
    [] cls = "ApiJsonError" -> "ApiError"
    [] cls = "ApiTimeoutError" -> "ApiError"
    [] cls = "asyncio.TimeoutError" -> "Exception"
    [] cls = "aiohttp.ClientError" -> "Exception"
    [] cls = "aiohttp.ClientConnectorError" -> "aiohttp.ClientError"
    [] cls = "aiohttp.ClientResponseError" -> "aiohttp.ClientError"
    [] cls = "aiohttp.ContentTypeError" -> "aiohttp.ClientResponseError"
    [] cls = "socket.gaierror" -> "Exception"
    [] cls = "json.JSONDecodeError" -> "Exception"
    [] cls = "RuntimeError" -> "Exception"
    [] OTHER -> "BaseException"

RECURSIVE IsInstance(_, _)
\* Python's isinstance(exc, cls), which decides whether `except cls` catches.
IsInstance(exc, cls) ==
  IF exc = cls THEN TRUE
  ELSE IF exc \in {"Exception", "BaseException", "none"} THEN FALSE
  ELSE IsInstance(Base(exc), cls)

\* `except (A, B, ...)`
Catches(classes, exc) == \E cls \in classes : IsInstance(exc, cls)


\* ------------------------------------------------------- api.py: the client
\* What the HTTP transport does with one request: no answer within the
\* timeout, a refused connection, a failed name lookup, an unexpected
\* failure inside the HTTP library, or a response with a status and a body.
\* Bodies: the banner text, another plain text, well-formed JSON
\* (application/json), and a body announced as JSON that does not parse.
Failure(k) == [kind |-> k, status |-> 0, body |-> "-"]
Response(s, b) == [kind |-> "response", status |-> s, body |-> b]
TransportOutcomes ==
  { Failure("timeout"), Failure("refused"), Failure("dns"), Failure("unexpected"),
    Response(200, BANNER), Response(200, "other text"),
    Response(200, "json"), Response(200, "badjson"),
    Response(401, "json"), Response(403, "json"),
    Response(404, "json"), Response(500, "other text") }

Raise(cls) == [raised |-> cls, value |-> "-"]
Return(v) == [raised |-> "none", value |-> v]

\* session.request(..., raise_for_status=True): the exception the awaited
\* request raises, or "none" when it yields a response object.
session_request(o) ==
  CASE o.kind = "timeout" -> "asyncio.TimeoutError"
    [] o.kind = "refused" -> "aiohttp.ClientConnectorError"
    [] o.kind = "dns" -> "socket.gaierror"
    [] o.kind = "unexpected" -> "RuntimeError"
    [] OTHER -> IF o.status >= 400 THEN "aiohttp.ClientResponseError" ELSE "none"

\* response.json(): aiohttp checks the content type, then parses the body.
response_json(o) ==
  CASE o.body = "json" -> Return("json")
    [] o.body = "badjson" -> Raise("json.JSONDecodeError")
    [] OTHER -> Raise("aiohttp.ContentTypeError")

\* The body of the try block of _api_wrapper.
api_wrapper_try(o, decode_json) ==
  IF session_request(o) # "none" THEN Raise(session_request(o))
  ELSE IF o.status \in {401, 403} THEN Raise("OllamaApiClientAuthenticationError")
  ELSE IF decode_json THEN response_json(o)
  ELSE Return(o.body)

\* Mutant of api_wrapper: the last clause, `except Exception`, is missing.
api_wrapper_leaky(o, decode_json) ==
  LET r == api_wrapper_try(o, decode_json) IN
  IF r.raised = "none" THEN r
  ELSE IF IsInstance(r.raised, "asyncio.TimeoutError")
    THEN Raise("OllamaApiClientCommunicationError")
  ELSE IF Catches({"aiohttp.ClientError", "socket.gaierror"}, r.raised)
    THEN Raise("OllamaApiClientCommunicationError")
  ELSE r

\* Mutant of api_wrapper: a failed name lookup is not classified as a
\* communication error.
api_wrapper_lookup_generic(o, decode_json) ==
  LET r == api_wrapper_try(o, decode_json) IN
  IF r.raised = "none" THEN r
  ELSE IF IsInstance(r.raised, "asyncio.TimeoutError")
    THEN Raise("OllamaApiClientCommunicationError")
  ELSE IF IsInstance(r.raised, "aiohttp.ClientError")
    THEN Raise("OllamaApiClientCommunicationError")
  ELSE Raise("OllamaApiClientError")

\* _api_wrapper: the try block, then its except clauses in order.
api_wrapper(o, decode_json) ==
  LET r == api_wrapper_try(o, decode_json) IN
  IF r.raised = "none" THEN r
  ELSE IF IsInstance(r.raised, "asyncio.TimeoutError")
    THEN Raise("OllamaApiClientCommunicationError")
  ELSE IF Catches({"aiohttp.ClientError", "socket.gaierror"}, r.raised)
    THEN Raise("OllamaApiClientCommunicationError")
  ELSE IF IsInstance(r.raised, "Exception")
    THEN Raise("OllamaApiClientError")
  ELSE r

\* Mutant of async_get_heartbeat: any answer of the server counts as running.
async_get_heartbeat_lax(o) ==
  LET r == api_wrapper(o, FALSE) IN
  IF r.raised # "none" THEN r ELSE Return("True")

\* async_get_heartbeat: GET base_url, decode_json=False; value is the
\* comparison of the body with the banner.
async_get_heartbeat(o) ==
  LET r == api_wrapper(o, FALSE) IN
  IF r.raised # "none" THEN r
  ELSE Return(IF r.value = BANNER THEN "True" ELSE "False")

\* Mutant of Requests: a failed request is issued a second time.
RequestsRetried(o) == IF session_request(o) # "none" THEN <<o, o>> ELSE <<o>>

\* The requests _api_wrapper puts on the wire when the transport does `o`:
\* the one `self._session.request(...)` of its try block, in no loop.
Requests(o) == <<o>>

\* async_get_models: GET /api/tags, JSON decoded.
async_get_models(o) == api_wrapper(o, TRUE)

\* async_generate: POST /api/generate with the payload, JSON decoded.
async_generate(o) == api_wrapper(o, TRUE)

\* async_chat: POST /api/chat with the payload, JSON decoded.
async_chat(o) == api_wrapper(o, TRUE)


\* ------------------------------------------------------------- state
VARIABLES
  mode,           \* "chat" (agent.py) or "legacy" (__init__.py): which agent is deployed
  intent_handler, \* entry.options[CONF_INTENT_HANDLER]
  agents,         \* per OllamaAgent instance constructed so far, its self.history:
                  \* conversation id -> reference
  agent,          \* the instance registered with the host (0: none)
  heap,           \* reference -> the list (chat) or dict (legacy) object
  minted,         \* number of ids ulid.ulid() has produced: ids 1..minted
  exposed,        \* the host's current exposed-entity snapshot
  turn,           \* per concurrent task: the position and locals of async_process
  started,        \* number of host events so far
  prompt_of,      \* per object: the text the renderer produced when it was created
  coordinator,    \* the poller's last heartbeat: transport outcome and result
  entry,          \* the config entry's last setup: its heartbeat and how it ended
  server,         \* the condition of the model server the client talks to
  log             \* the client operations invoked directly, in order, with what came back

vars == <<mode, intent_handler, agents, agent, heap, minted, exposed, turn, started,
          prompt_of, coordinator, entry, server, log>>

\* self.history of the agent in service (of no agent: nothing).
history == IF agent = 0 THEN <<>> ELSE agents[agent]

\* The session store of instance g as a value: conversation id -> stored content.
StoreOf(g) == [c \in DOMAIN agents[g] |-> heap[agents[g][c]]]

\* The session store of instance g after the step.
StoreAfter(g) == [c \in DOMAIN agents'[g] |-> heap'[agents'[g][c]]]

\* The session store of the agent in service.
Store == [c \in DOMAIN history |-> heap[history[c]]]

UserMsg(text) == [role |-> "user", content |-> text]
AssistantMsg(text) == [role |-> "assistant", content |-> text]
\* messages = [{"role": "user", "content": system_prompt}]
SystemMsg(text) == [role |-> "user", content |-> text]

\* template.Template(raw_prompt).async_render({... exposed_entities ...}):
\* the rendered text depends on the snapshot; rendering may raise TemplateError.
RenderText(snapshot) == IF snapshot = "e0" THEN "prompt over e0" ELSE "prompt over e1"
RenderOutcomes == { [ok |-> TRUE], [ok |-> FALSE] }

\* The payload handed to the client (sampling options left out).
ChatPayload(messages) == [model |-> DEFAULT_MODEL, messages |-> messages, stream |-> FALSE]
\* Mutant of GeneratePayload: the stored continuation token is not sent.
GeneratePayloadFresh(messages) ==
  [model |-> DEFAULT_MODEL, context |-> NoContext, system |-> messages.system,
   prompt |-> messages.prompt, stream |-> FALSE]

GeneratePayload(messages) ==
  [model |-> DEFAULT_MODEL, context |-> messages.context, system |-> messages.system,
   prompt |-> messages.prompt, stream |-> FALSE]
Payload(obj) == IF mode = "chat" THEN ChatPayload(obj) ELSE GeneratePayload(obj)
NoPayload == Payload(IF mode = "chat" THEN <<>>
                     ELSE [system |-> "", context |-> NoContext, prompt |-> ""])

NoResult == [kind |-> "none", conversation_id |-> NoId, speech |-> "", exc |-> "none"]
Speech(cid, text) == [kind |-> "speech", conversation_id |-> cid, speech |-> text, exc |-> "none"]
Error(cid, text) == [kind |-> "error", conversation_id |-> cid, speech |-> text, exc |-> "none"]
Builtin(cid, text, rtype) == [kind |-> rtype, conversation_id |-> cid, speech |-> text, exc |-> "none"]
Raised(exc) == [kind |-> "raised", conversation_id |-> NoId, speech |-> "", exc |-> exc]

TEMPLATE_ERROR == "I had a problem with my system prompt, please check the logs for more information."
GENERIC_ERROR == "Something went wrong, please check the logs for more information."
API_ERROR == "Something went wrong, <err>"

NoTransport == Failure("none")

IdleTurn ==
  [pc |-> "idle", conversation_id |-> NoId, text |-> "", cid |-> NoId, messages |-> NoId,
   self |-> 0, request |-> NoPayload, intent |-> "none", content |-> "", response_type |-> "none",
   result |-> NoResult,
   \* bookkeeping for the properties: the store when the turn began, whether
   \* no other turn was in flight during it, whether the session lookup found
   \* the id, what the renderer did if it was invoked ("ok", "TemplateError"),
   \* how often the client was invoked, and how many HTTP requests that took
   store0 |-> <<>>, solo |-> TRUE, found |-> FALSE, rendered |-> "none", calls |-> 0,
   requests |-> 0]

\* The host gives a new turn the first free task.
TaskOrder(t) == IF t = "task1" THEN 1 ELSE 2

InFlight(t) == turn[t].pc \notin {"idle", "done"}

\* Mutant of use_builtin_agent: the option is not looked at, the fallback is
\* never used.
use_builtin_agent_never == FALSE

\* Mutant of use_builtin_agent: the option is not looked at, the fallback is
\* always used.
use_builtin_agent_always == mode = "chat"

\* use_builtin_agent (agent.py); the legacy agent has no fallback.
use_builtin_agent == mode = "chat" /\ intent_handler = "builtin"

\* Mutant of InHistory: the lookup never finds the id.
InHistoryNever(self, id) == FALSE

\* user_input.conversation_id in self.history
InHistory(self, id) == id \in DOMAIN agents[self]

\* An id of the caller's own choosing, which no turn has returned.
ForeignId == 99

\* Mutant of ulid: the identifier is one a caller may have chosen.
ulid_foreign == ForeignId

\* Mutant of ulid: the identifier produced last is produced again.
ulid_stale == minted

\* ulid.ulid(): a fresh identifier.
ulid == minted + 1

\* Ids a caller can supply: none, an id of its own choosing, or any id a
\* turn has returned.
CallerIds == {NoId, ForeignId} \cup (1..minted)

Init ==
  /\ mode \in {"chat", "legacy"}
  /\ intent_handler \in IF mode = "chat" THEN {"builtin", "none"} ELSE {"none"}
  /\ agents = << <<>> >>
  /\ agent = 1
  /\ heap = <<>>
  /\ minted = 0
  /\ exposed \in Snapshots
  /\ started = 0
  /\ prompt_of = <<>>
  /\ turn = [t \in Turns |-> IdleTurn]
  /\ coordinator = [transport |-> NoTransport, requests |-> 0, heartbeat |-> Return("-"),
                    update |-> Return("-")]
  /\ entry = [heartbeat |-> Return("True"), outcome |-> "ok"]
  /\ server = "any"
  /\ log = <<>>


\* ------------------------------------------- async_process: the LLM path
\* The new object of a first turn: the rendered prompt (and, in chat mode,
\* the utterance appended to it; in legacy mode, the prompt key set).
NewMessages(system_prompt, text) ==
  IF mode = "chat" THEN <<SystemMsg(system_prompt), UserMsg(text)>>
  ELSE [system |-> system_prompt, context |-> NoContext, prompt |-> text]

\* messages.append({"role": "user", ...}) / messages["prompt"] = text, on the
\* object `messages` refers to.
WithUtterance(obj, text) ==
  IF mode = "chat" THEN Append(obj, UserMsg(text)) ELSE [obj EXCEPT !.prompt = text]

\* Mutant of WithReply: the reply is not recorded in the object.
WithReplyDropped(obj, reply, context) == obj

\* messages.append({"role": "assistant", ...}) / messages["context"] = ...
WithReply(obj, reply, context) ==
  IF mode = "chat" THEN Append(obj, AssistantMsg(reply)) ELSE [obj EXCEPT !.context = context]

\* Mutant of TemplateErrorTurn: the client is invoked before the error is
\* returned.
TemplateErrorThenCall(tr, cid, uid) ==
  [tr EXCEPT !.pc = "done", !.conversation_id = uid, !.cid = cid, !.calls = @ + 1,
             !.result = Error(cid, TEMPLATE_ERROR)]

\* except TemplateError: the error response is returned with the new id.
TemplateErrorTurn(tr, cid, uid) ==
  [tr EXCEPT !.pc = "done", !.conversation_id = uid, !.cid = cid,
             !.result = Error(cid, TEMPLATE_ERROR)]

\* From the session lookup to the await of the model call (agent.py 44-64,
\* __init__.py 123-148), run by task t whose turn function so far is `base`.
\* `ro` is what the renderer does if it is invoked.
LLMPath(t, base, ro) ==
  LET self == base[t].self
      tr == [base[t] EXCEPT !.found = base[t].conversation_id \in DOMAIN agents[self]]
  IN
  IF InHistory(self, tr.conversation_id)
  THEN LET cid == tr.conversation_id
           ref == agents[self][cid]
           obj == WithUtterance(heap[ref], tr.text)
       IN /\ heap' = [heap EXCEPT ![ref] = obj]
          /\ turn' = [base EXCEPT ![t] =
                        [tr EXCEPT !.pc = "await_model", !.cid = cid, !.messages = ref,
                                   !.request = Payload(obj), !.calls = @ + 1]]
          /\ UNCHANGED <<agents, minted, prompt_of>>
  ELSE LET cid == ulid
           uid == IF mode = "chat" THEN cid ELSE tr.conversation_id
       IN /\ minted' = cid
          /\ UNCHANGED agents
          /\ IF ro.ok
             THEN LET obj == NewMessages(RenderText(exposed), tr.text) IN
                  /\ heap' = [r \in DOMAIN heap \cup {cid} |->
                                IF r = cid THEN obj ELSE heap[r]]
                  /\ prompt_of' = [r \in DOMAIN prompt_of \cup {cid} |->
                                     IF r = cid THEN RenderText(exposed) ELSE prompt_of[r]]
                  /\ turn' = [base EXCEPT ![t] =
                       [tr EXCEPT !.pc = "await_model", !.conversation_id = uid,
                                  !.cid = cid, !.messages = cid, !.request = Payload(obj),
                                  !.rendered = "ok", !.calls = @ + 1]]
             ELSE /\ turn' = [base EXCEPT ![t] =
                       TemplateErrorTurn([tr EXCEPT !.rendered = "TemplateError"], cid, uid)]
                  /\ UNCHANGED <<heap, prompt_of>>

\* async_process is called by the host with (conversation_id, text). With the
\* built-in handler the first await is the agent manager's; otherwise the
\* task runs on to the model call without suspending.
ProcessBegin(t) ==
  \E id \in CallerIds, ro \in RenderOutcomes :
    /\ agent # 0
    /\ turn[t].pc = "idle"
    /\ \A o \in Turns : TaskOrder(o) < TaskOrder(t) => turn[o].pc # "idle"
    /\ started < MaxEvents
    /\ started' = started + 1
    /\ LET text == Utterance(started')
           alone == \A o \in Turns \ {t} : ~InFlight(o)
           base == [o \in Turns |->
                      IF o = t
                      THEN [IdleTurn EXCEPT !.self = agent, !.conversation_id = id,
                                            !.text = text,
                                            !.store0 = Store, !.solo = alone]
                      ELSE IF InFlight(o) THEN [turn[o] EXCEPT !.solo = FALSE]
                      ELSE turn[o]]
       IN IF use_builtin_agent
          THEN /\ turn' = [base EXCEPT ![t].pc = "get_agent"]
               /\ UNCHANGED <<agents, heap, minted, prompt_of>>
          ELSE LLMPath(t, base, ro)
    /\ UNCHANGED <<mode, intent_handler, agent, exposed, coordinator, entry, server, log>>

\* The object a task held is dropped with the task unless the store holds it.
Collect(f, ref) ==
  IF \E g \in DOMAIN agents : \E c \in DOMAIN agents[g] : agents[g][c] = ref THEN f
  ELSE [r \in DOMAIN f \ {ref} |-> f[r]]

\* The except clauses around the model call: the speech of the error
\* response, or "" when no clause catches the exception.
ErrorSpeech(exc) ==
  IF mode = "chat"
  THEN IF IsInstance(exc, "ApiError") THEN GENERIC_ERROR
       ELSE IF IsInstance(exc, "HomeAssistantError") THEN GENERIC_ERROR
       ELSE ""
  ELSE IF Catches({"ApiCommError", "ApiJsonError", "ApiTimeoutError"}, exc) THEN API_ERROR
       ELSE IF IsInstance(exc, "HomeAssistantError") THEN GENERIC_ERROR
       ELSE ""

\* Mutant of WriteBack: every key of the store is bound to the object.
WriteBackAll(h, cid, ref) == [c \in DOMAIN h \cup {cid} |-> ref]

\* self.history[conversation_id] = messages
WriteBack(h, cid, ref) == [c \in DOMAIN h \cup {cid} |-> IF c = cid THEN ref ELSE h[c]]

\* What the awaited client call comes back with when the transport does `o`.
ModelResult(o) == IF mode = "chat" THEN async_chat(o) ELSE async_generate(o)

\* The awaited model call of task t completes, the transport having done
\* `o`; a well-formed answer carries the reply (and, in legacy mode, the
\* continuation token).
ModelCall(t) ==
  \E o \in TransportOutcomes :
    /\ turn[t].pc = "await_model"
    /\ LET tr == [turn[t] EXCEPT !.requests = Len(Requests(o))]
           res == ModelResult(o)
           ref == tr.messages
           reply == ReplyTo(tr.text)
           context == IF mode = "chat" THEN NoContext
                      ELSE ContextAfter(tr.request.context, tr.request.prompt)
       IN IF res.raised = "none"
          THEN /\ heap' = [heap EXCEPT ![ref] = WithReply(@, reply, context)]
               /\ agents' = [agents EXCEPT ![tr.self] = WriteBack(@, tr.cid, ref)]
               /\ turn' = [turn EXCEPT ![t] =
                            [tr EXCEPT !.pc = "done", !.intent = "none", !.content = "",
                                       !.response_type = "none",
                                       !.result = Speech(tr.cid, reply)]]
               /\ UNCHANGED prompt_of
          ELSE /\ heap' = Collect(heap, ref)
               /\ prompt_of' = Collect(prompt_of, ref)
               /\ turn' = [turn EXCEPT ![t] =
                            [tr EXCEPT !.pc = "done", !.intent = "none", !.content = "",
                                       !.response_type = "none",
                                       !.result = IF ErrorSpeech(res.raised) # ""
                                                  THEN Error(tr.cid, ErrorSpeech(res.raised))
                                                  ELSE Raised(res.raised)]]
               /\ UNCHANGED agents
    /\ UNCHANGED <<mode, intent_handler, agent, minted, exposed, started, coordinator, entry, server, log>>

\* The host takes the result (or the exception) of a finished task.
Deliver(t) ==
  /\ turn[t].pc = "done"
  /\ turn' = [turn EXCEPT ![t] = IdleTurn]
  /\ UNCHANGED <<mode, intent_handler, agents, agent, heap, minted, exposed, started,
                 prompt_of, coordinator, entry, server, log>>


\* ------------------------------------- _call_builtin_agent (agent.py 102-114)
\* What the host's recognizer and default agent can answer.
Intents == {"HassGetState", "HassTurnOn"}
Contents == {"Not any", "The light is on"}
ResponseTypes == {"action_done", "error"}

\* await conversation._get_agent_manager(hass).async_get_agent()
GetAgent(t) ==
  /\ turn[t].pc = "get_agent"
  /\ turn' = [turn EXCEPT ![t].pc = "recognize"]
  /\ UNCHANGED <<mode, intent_handler, agents, agent, heap, minted, exposed, started,
                 prompt_of, coordinator, entry, server, log>>

\* await agent.async_recognize(user_input): no match returns None, and
\* async_process goes on to the LLM path.
Recognize(t) ==
  \E intent \in Intents \cup {"none"}, ro \in RenderOutcomes :
    /\ turn[t].pc = "recognize"
    /\ IF intent = "none"
       THEN LLMPath(t, turn, ro)
       ELSE /\ turn' = [turn EXCEPT ![t].pc = "builtin_process", ![t].intent = intent]
            /\ UNCHANGED <<agents, heap, minted, prompt_of>>
    /\ UNCHANGED <<mode, intent_handler, agent, exposed, started, coordinator, entry, server, log>>

\* Mutant of Discarded: `or` in place of `and` after the intent name.
DiscardedOr(intent, content, response_type) ==
  intent = "HassGetState" \/ (content = "Not any" \/ response_type = "error")

\* Mutant of Discarded: the test of the "Not any" answer is missing.
DiscardedOnError(intent, content, response_type) ==
  intent = "HassGetState" /\ response_type = "error"

\* The test that discards the default agent's result.
Discarded(intent, content, response_type) ==
  intent = "HassGetState" /\ (content = "Not any" \/ response_type = "error")

\* await agent.async_process(user_input), then the result is re-tagged with
\* the caller's conversation id and returned unless it is discarded.
BuiltinProcess(t) ==
  \E content \in Contents, response_type \in ResponseTypes, ro \in RenderOutcomes :
    /\ turn[t].pc = "builtin_process"
    /\ LET tr == [turn[t] EXCEPT !.content = content, !.response_type = response_type]
           base == [turn EXCEPT ![t] = tr]
       IN IF Discarded(tr.intent, content, response_type)
          THEN LLMPath(t, base, ro)
          ELSE /\ turn' = [base EXCEPT ![t].pc = "done",
                                       ![t].result = Builtin(tr.conversation_id, content,
                                                             response_type)]
               /\ UNCHANGED <<agents, heap, minted, prompt_of>>
    /\ UNCHANGED <<mode, intent_handler, agent, exposed, started, coordinator, entry, server, log>>

\* ----------------------------------------------------- the environment
\* The host's entity registry changes between or during turns.
ChangeEntities ==
  /\ started < MaxEvents
  /\ started' = started + 1
  /\ exposed' \in Snapshots \ {exposed}
  /\ UNCHANGED <<mode, intent_handler, agents, agent, heap, minted, turn,
                 prompt_of, coordinator, entry, server, log>>

\* coordinator._async_update_data: the heartbeat, ApiClientError turned into
\* UpdateFailed.
async_update_data(o) ==
  LET r == async_get_heartbeat(o) IN
  IF r.raised # "none" /\ IsInstance(r.raised, "ApiClientError")
  THEN Raise("UpdateFailed") ELSE r

\* The scheduled poll (every 5 minutes).
Poll ==
  \E o \in TransportOutcomes :
    /\ started < MaxEvents
    /\ started' = started + 1
    /\ coordinator' = [transport |-> o, requests |-> Len(Requests(o)),
                       heartbeat |-> async_get_heartbeat(o),
                       update |-> async_update_data(o)]
    /\ UNCHANGED <<mode, intent_handler, agents, agent, heap, minted, exposed, turn,
                   prompt_of, entry, server, log>>

\* --------------------------------------- setup and reload (__init__.py)
\* What the server may answer to the two heartbeats of a setup: the banner,
\* another text, or nothing (connection refused, no answer in time).
SetupAnswers == {Response(200, BANNER), Response(200, "other text"), Failure("refused"),
                 Failure("timeout")}

\* async_setup_entry gets as far as constructing and registering the agent:
\* the coordinator's first refresh (heartbeat answered `o1`) must not fail and
\* the heartbeat that follows (answered `o2`) must return True.
SetupCompletes(o1, o2) ==
  /\ async_update_data(o1).raised = "none"
  /\ async_get_heartbeat(o2) = Return("True")

\* The heartbeat of async_setup_entry, when the setup gets to it.
setup_heartbeat(o1, o2) ==
  IF async_update_data(o1).raised # "none" THEN Return("-") ELSE async_get_heartbeat(o2)

\* How async_setup_entry ends: "ok", or the exception that leaves it. A
\* failed first refresh is ConfigEntryNotReady; a heartbeat that returns
\* False raises ApiClientError, and `except ApiClientError` turns that, and
\* what else it catches, into ConfigEntryNotReady.
setup_outcome(o1, o2) ==
  LET r == setup_heartbeat(o1, o2) IN
  IF async_update_data(o1).raised # "none" THEN "ConfigEntryNotReady"
  ELSE IF r = Return("True") THEN "ok"
  ELSE IF r.raised = "none" THEN "ConfigEntryNotReady"
  ELSE IF IsInstance(r.raised, "ApiClientError") THEN "ConfigEntryNotReady"
  ELSE r.raised

\* async_setup_entry: a new coordinator, and on success a new OllamaAgent,
\* whose history is empty, registered in place of any other.
async_setup_entry(o1, o2) ==
  /\ entry' = [heartbeat |-> setup_heartbeat(o1, o2), outcome |-> setup_outcome(o1, o2)]
  /\ coordinator' = [transport |-> o1, requests |-> Len(Requests(o1)),
                     heartbeat |-> async_get_heartbeat(o1),
                     update |-> async_update_data(o1)]
  /\ IF SetupCompletes(o1, o2)
     THEN agents' = Append(agents, <<>>) /\ agent' = Len(agents) + 1
     ELSE agents' = agents /\ agent' = 0

\* async_reload_entry, the update listener of a loaded entry: unload, which
\* unregisters the agent, then setup. Turns in flight go on in the instance
\* they were called on.
Reload ==
  \E o1 \in SetupAnswers, o2 \in SetupAnswers :
    /\ agent # 0
    /\ started < MaxEvents
    /\ started' = started + 1
    /\ async_setup_entry(o1, o2)
    /\ UNCHANGED <<mode, intent_handler, heap, minted, exposed, turn, prompt_of,
                   server, log>>

\* The host sets the entry up again after a setup that did not complete.
SetupEntry ==
  \E o1 \in SetupAnswers, o2 \in SetupAnswers :
    /\ agent = 0
    /\ started < MaxEvents
    /\ started' = started + 1
    /\ async_setup_entry(o1, o2)
    /\ UNCHANGED <<mode, intent_handler, heap, minted, exposed, turn, prompt_of,
                   server, log>>

Next ==
  \/ \E t \in Turns : ProcessBegin(t)
  \/ \E t \in Turns : GetAgent(t)
  \/ \E t \in Turns : Recognize(t)
  \/ \E t \in Turns : BuiltinProcess(t)
  \/ \E t \in Turns : ModelCall(t)
  \/ \E t \in Turns : Deliver(t)
  \/ ChangeEntities
  \/ Poll
  \/ Reload
  \/ SetupEntry

Spec == Init /\ [][Next]_vars


\* ------------------------------------------- the client on its own
\* A second specification: a caller (the config flow, the setup, the poller,
\* the agent) invokes the client's operations one after the other against a
\* server whose condition is fixed, and keeps what came back.

\* Number of client operations invoked in one behaviour.
MaxCalls == 3

\* Conditions of the server at base_url.
Servers == {"running", "no model", "unreachable", "slow", "guarded", "other service",
            "faulty"}

\* What the transport does with a request of operation `op` (the URL it is
\* sent to) when the server is in condition `srv`.
Answers(srv, op) ==
  CASE srv = "running" ->
         IF op = "heartbeat" THEN {Response(200, BANNER)} ELSE {Response(200, "json")}
    [] srv = "no model" ->
         IF op = "heartbeat" THEN {Response(200, BANNER)}
         ELSE IF op = "generate" THEN {Response(404, "json")}
         ELSE {Response(200, "json")}
    [] srv = "unreachable" -> {Failure("refused"), Failure("dns")}
    [] srv = "slow" -> {Failure("timeout")}
    [] srv = "guarded" -> {Response(401, "json"), Response(403, "json")}
    [] srv = "other service" ->
         IF op = "heartbeat" THEN {Response(200, "other text"), Response(200, "json")}
         ELSE {Response(404, "other text"), Response(200, "other text")}
    [] srv = "faulty" ->
         {Response(500, "other text"), Response(200, "badjson"), Failure("unexpected")}
    [] OTHER -> TransportOutcomes

\* One invocation, as the caller sees it.
Invocation(op, o, result) ==
  [op |-> op, transport |-> o, result |-> result, requests |-> Requests(o)]

ClientInit ==
  /\ mode = "legacy"
  /\ intent_handler = "none"
  /\ agents = << <<>> >>
  /\ agent = 1
  /\ heap = <<>>
  /\ minted = 0
  /\ exposed = "e0"
  /\ started = 0
  /\ prompt_of = <<>>
  /\ turn = [t \in Turns |-> IdleTurn]
  /\ coordinator = [transport |-> NoTransport, requests |-> 0, heartbeat |-> Return("-"),
                    update |-> Return("-")]
  /\ entry = [heartbeat |-> Return("True"), outcome |-> "ok"]
  /\ server \in Servers
  /\ log = <<>>

\* await client.async_get_heartbeat()
Heartbeat ==
  \E o \in Answers(server, "heartbeat") :
    /\ Len(log) < MaxCalls
    /\ log' = Append(log, Invocation("heartbeat", o, async_get_heartbeat(o)))
    /\ UNCHANGED <<mode, intent_handler, agents, agent, heap, minted, exposed, turn, started,
                   prompt_of, coordinator, entry, server>>

\* await client.async_get_models()
GetModels ==
  \E o \in Answers(server, "models") :
    /\ Len(log) < MaxCalls
    /\ log' = Append(log, Invocation("models", o, async_get_models(o)))
    /\ UNCHANGED <<mode, intent_handler, agents, agent, heap, minted, exposed, turn, started,
                   prompt_of, coordinator, entry, server>>

\* await client.async_generate(payload)
Generate ==
  \E o \in Answers(server, "generate") :
    /\ Len(log) < MaxCalls
    /\ log' = Append(log, Invocation("generate", o, async_generate(o)))
    /\ UNCHANGED <<mode, intent_handler, agents, agent, heap, minted, exposed, turn, started,
                   prompt_of, coordinator, entry, server>>

ClientNext == Heartbeat \/ GetModels \/ Generate

ClientSpec == ClientInit /\ [][ClientNext]_vars


\* ------------------------------------------------------------ properties
\* Task t's model call completes in this step, having failed.
ModelCallFails(t) ==
  /\ turn[t].pc = "await_model"
  /\ turn'[t].pc = "done"
  /\ turn'[t].result.kind \in {"error", "raised"}

\* Task t's model call completes in this step with a reply.
ModelCallSucceeds(t) ==
  /\ turn[t].pc = "await_model"
  /\ turn'[t].pc = "done"
  /\ turn'[t].result.kind = "speech"

\* C1: if the model call of a turn fails, the session store after the turn
\* equals the session store before the turn (no other turn having run
\* meanwhile): no session is created and no stored content is changed.
C1_FailedTurnLeavesStore ==
  [][\A t \in Turns :
       ModelCallFails(t) /\ turn[t].solo => StoreAfter(turn[t].self) = turn[t].store0]_vars

SystemPromptOf(obj) == IF mode = "chat" THEN obj[1].content ELSE obj.system

\* C3: the system prompt is rendered exactly once per session: a turn whose
\* conversation id is found in the store never invokes the renderer, a turn
\* that creates a session has rendered, and the first entry of every stored
\* session is the text rendered when it was created, whatever the snapshot
\* is now.
C3_PromptRenderedOnce ==
  /\ \A g \in DOMAIN agents : \A c \in DOMAIN agents[g] :
       SystemPromptOf(heap[agents[g][c]]) = prompt_of[agents[g][c]]
  /\ \A t \in Turns :
       /\ turn[t].found => turn[t].rendered = "none"
       /\ turn[t].pc = "await_model" /\ ~turn[t].found => turn[t].rendered = "ok"

\* C3 witness: a session that has seen a second turn still carries the prompt
\* rendered at its creation, although the snapshot has changed since.
C3_Witness ==
  \E t \in Turns :
    /\ turn[t].pc = "done" /\ turn[t].found /\ turn[t].result.kind = "speech"
    /\ turn[t].cid \in DOMAIN agents[turn[t].self]
    /\ prompt_of[agents[turn[t].self][turn[t].cid]] # RenderText(exposed)

\* C4: on the first turn of a new conversation generate is called with exactly
\* two messages, the rendered system prompt with role system and the
\* utterance with role user; after the reply the speech is the reply and the
\* session, stored under the minted id, starts with (system, user, assistant).
C4_FirstTurnMessages ==
  \A t \in Turns :
    mode = "chat" /\ ~turn[t].found =>
      /\ turn[t].pc = "await_model" =>
           turn[t].request.messages =
             << [role |-> "system", content |-> prompt_of[turn[t].cid]],
                [role |-> "user", content |-> turn[t].text] >>
      /\ turn[t].pc = "done" /\ turn[t].result.kind = "speech" =>
           /\ turn[t].result.speech = ReplyTo(turn[t].text)
           /\ turn[t].result.conversation_id = turn[t].cid
           /\ turn[t].cid \notin DOMAIN turn[t].store0
           /\ turn[t].cid \in DOMAIN agents[turn[t].self]
           /\ Len(StoreOf(turn[t].self)[turn[t].cid]) >= 3
           /\ [i \in 1..3 |-> StoreOf(turn[t].self)[turn[t].cid][i].role]
                = <<"system", "user", "assistant">>

\* The default agent matched an intent and answered it: no error, and an
\* answer other than the empty "Not any".
Confident(tr) ==
  /\ tr.intent \in Intents
  /\ tr.response_type = "action_done"
  /\ tr.content \notin {"", "Not any"}

\* C5: with the built-in fallback enabled, a turn the recognizer answers
\* confidently returns that answer and stops: it invokes neither the client
\* nor the renderer, mints no id, and leaves the session store unchanged.
C5_FallbackShortCircuit ==
  [][\A t \in Turns :
       turn[t].pc = "builtin_process" /\ Confident(turn'[t]) =>
         /\ turn'[t].pc = "done"
         /\ turn'[t].result = Builtin(turn[t].conversation_id, turn'[t].content,
                                      turn'[t].response_type)
         /\ turn'[t].calls = 0
         /\ turn'[t].rendered = "none"
         /\ minted' = minted
         /\ StoreAfter(turn[t].self) = StoreOf(turn[t].self)
         /\ turn[t].solo => StoreAfter(turn[t].self) = turn[t].store0]_vars

\* C5 witness: a turn has ended with the recognizer's confident answer.
C5_Witness ==
  \E t \in Turns :
    /\ use_builtin_agent /\ turn[t].pc = "done" /\ Confident(turn[t])
    /\ turn[t].result.kind = "action_done"

\* C6: a HassGetState answer "Not any" is discarded and the same turn goes on
\* to the LLM path: after the session lookup it awaits the model call (or has
\* ended on the render failure of a new session); it never ends with the
\* recognizer's answer.
C6_NotAnyFallsThrough ==
  \A t \in Turns :
    turn[t].intent = "HassGetState" /\ turn[t].content = "Not any" =>
      \/ /\ turn[t].pc = "await_model"
         /\ turn[t].calls = 1
         /\ turn[t].cid # NoId
      \/ /\ turn[t].pc = "done"
         /\ turn[t].rendered = "TemplateError"
         /\ turn[t].result = Error(turn[t].cid, TEMPLATE_ERROR)

\* C6 witness: a turn whose HassGetState answer was "Not any" awaits the model.
C6_Witness ==
  \E t \in Turns :
    /\ use_builtin_agent /\ turn[t].pc = "await_model"
    /\ turn[t].intent = "HassGetState" /\ turn[t].content = "Not any"
    /\ turn[t].response_type = "action_done"

\* C7: whatever error the client raises during the model call, the turn ends
\* by returning a response; no exception propagates out of the turn.
C7_NoExceptionLeavesTurn ==
  \A t \in Turns :
    turn[t].pc = "done" => turn[t].result.kind \in {"speech", "error"} \cup ResponseTypes

\* C8: if rendering the system prompt fails, the turn ends at once with the
\* template error response under the minted id, the client is not invoked,
\* no session is created and the store is unchanged; the turn takes no
\* further step.
C8_RenderFailureIsTerminal ==
  [][\A t \in Turns :
       /\ turn[t].rendered # "TemplateError" /\ turn'[t].rendered = "TemplateError" =>
            /\ turn'[t].pc = "done"
            /\ turn'[t].result = Error(minted', TEMPLATE_ERROR)
            /\ turn'[t].calls = 0
            /\ ~turn'[t].found
            /\ agents' = agents
            /\ StoreAfter(turn'[t].self) = StoreOf(turn'[t].self)
            /\ minted' \notin DOMAIN heap'
       /\ turn[t].rendered = "TemplateError" =>
            turn'[t] = turn[t] \/ turn'[t] = IdleTurn]_vars

\* C8 witness: a turn has ended on a render failure.
C8_Witness ==
  \E t \in Turns : turn[t].pc = "done" /\ turn[t].rendered = "TemplateError"

\* C9: a request that exceeds the timeout makes the client raise the timeout
\* error, a refused connection the communication error, and the two kinds
\* differ.
C9_TimeoutDistinctFromRefusal ==
  /\ coordinator.transport.kind = "timeout" =>
       /\ IsInstance(coordinator.heartbeat.raised, "ApiTimeoutError")
       /\ coordinator.heartbeat.raised # async_get_heartbeat(Failure("refused")).raised
  /\ coordinator.transport.kind = "refused" =>
       coordinator.heartbeat.raised \in {"ApiCommError", "OllamaApiClientCommunicationError"}

\* C10: when the server answers 401 or 403, the error that reaches the caller
\* is the authentication error.
C10_AuthenticationError ==
  coordinator.transport.status \in {401, 403} =>
    coordinator.heartbeat.raised = "OllamaApiClientAuthenticationError"

\* ------------------------------------------- properties of the client
\* The invocations of operation `op` in the log.
Invoked(op) == { i \in DOMAIN log : log[i].op = op }

\* decode_json of the operation's call of _api_wrapper.
DecodesJson(op) == op # "heartbeat"

\* C11: when the server answers generate with 404 and a JSON error body, the
\* client raises the JSON error kind, which is none of the transport kinds;
\* any other error status (401 and 403 set aside) raises the communication
\* error.
C11_NotFoundIsJsonError ==
  \A i \in Invoked("generate") :
    LET o == log[i].transport
        raised == log[i].result.raised
    IN o.kind = "response" /\ o.status >= 400 /\ o.status \notin {401, 403} =>
         IF o.status = 404 /\ o.body = "json"
         THEN /\ IsInstance(raised, "ApiJsonError")
              /\ raised # async_generate(Failure("refused")).raised
              /\ raised # async_generate(Failure("timeout")).raised
         ELSE raised \in {"ApiCommError", "OllamaApiClientCommunicationError"}

\* C12: every exception that leaves heartbeat, listModels or generate is of
\* the client's error base class, and a failure that is neither a timeout nor
\* a transport error (aiohttp.ClientError, socket.gaierror) comes out as the
\* generic client error itself, never as the exception that was raised inside.
C12_OnlyClientErrorsLeave ==
  \A i \in DOMAIN log :
    LET inner == api_wrapper_try(log[i].transport, DecodesJson(log[i].op)).raised
        raised == log[i].result.raised
    IN /\ raised # "none" => IsInstance(raised, "OllamaApiClientError")
       /\ (raised = "none") = (inner = "none")
       /\ inner # "none"
            /\ ~Catches({"asyncio.TimeoutError", "aiohttp.ClientError", "socket.gaierror"},
                        inner)
          => raised = "OllamaApiClientError" /\ raised # inner

\* C12 witness: an unexpected failure inside the HTTP library and a body that
\* is not JSON have both reached the caller as the generic client error.
C12_Witness ==
  /\ \E i \in DOMAIN log :
       log[i].transport.kind = "unexpected" /\ log[i].result.raised = "OllamaApiClientError"
  /\ \E i \in DOMAIN log :
       /\ log[i].transport.body = "badjson" /\ DecodesJson(log[i].op)
       /\ log[i].result.raised = "OllamaApiClientError"

C14_HeartbeatErrorKindIsStable ==
  /\ server = "unreachable" =>
       \A i \in Invoked("heartbeat") :
         log[i].result = Raise("OllamaApiClientCommunicationError")
  /\ server \in {"unreachable", "slow"} =>
       \A i, j \in Invoked("heartbeat") :
         /\ log[i].result.raised # "none"
         /\ log[i].result = log[j].result

\* C14 witness: heartbeat was repeated against an unreachable server, the
\* connection once refused and once failing at the name lookup.
C14_Witness ==
  /\ server = "unreachable"
  /\ \E i, j \in Invoked("heartbeat") :
       /\ i < j
       /\ log[i].transport.kind = "refused" /\ log[j].transport.kind = "dns"
       /\ log[i].result.raised = log[j].result.raised

\* ------------------------------------------------ properties, continued
\* The turn of task t got as far as a `messages` object for the model and
\* ended without a reply.
FailedAtModel(t) ==
  /\ turn[t].pc = "done"
  /\ turn[t].messages # NoId
  /\ turn[t].result.kind \in {"error", "raised"}

\* C15: nothing is retried. A turn invokes the client at most once, and the
\* invocation puts exactly one request on the wire, whether it succeeds or
\* fails; a turn that failed at the model call has made exactly one call and
\* one request. A poll's heartbeat is one request, and when that request
\* fails the heartbeat raises at once.
C15_NothingIsRetried ==
  /\ \A t \in Turns :
       /\ turn[t].calls <= 1
       /\ turn[t].requests <= turn[t].calls
       /\ turn[t].pc = "await_model" => turn[t].calls = 1 /\ turn[t].requests = 0
       /\ turn[t].pc = "done" => turn[t].requests = turn[t].calls
       /\ FailedAtModel(t) => turn[t].calls = 1 /\ turn[t].requests = 1
  /\ coordinator.transport # NoTransport =>
       /\ coordinator.requests = 1
       /\ session_request(coordinator.transport) # "none"
            => coordinator.heartbeat.raised # "none"

\* C15 witness: a turn has failed at its model call, and a poll's heartbeat
\* has failed.
C15_Witness ==
  /\ \E t \in Turns : FailedAtModel(t) /\ turn[t].requests = 1
  /\ coordinator.heartbeat.raised # "none"

\* Task t does the session lookup in this step: it goes on to await the
\* model, or ends on the render failure of a new session.
Lookup(t) ==
  /\ turn[t].pc \in {"idle", "recognize", "builtin_process"}
  /\ turn'[t].pc = "await_model" \/ turn'[t].rendered = "TemplateError"

\* The turn of task t came to the session lookup and ended with a response.
AnsweredOnLLMPath(tr) ==
  /\ tr.pc = "done"
  /\ tr.messages # NoId \/ tr.rendered = "TemplateError"
  /\ tr.result.kind \in {"speech", "error"}

\* C16: at the session lookup, an id that is a key of the store makes the turn
\* use the stored session under that very id, whoever supplies it; an id that
\* is empty or not a key makes the turn mint an id that is no key of the
\* store and was never issued before. The response of the turn, success or
\* error, carries the id the lookup settled on.
C16_ResponseCarriesSessionId ==
  [][\A t \in Turns :
       /\ Lookup(t) =>
            /\ turn[t].pc # "idle" =>
                 turn'[t].found = (turn[t].conversation_id \in DOMAIN agents[turn[t].self])
            /\ turn'[t].found =>
                 /\ turn'[t].conversation_id \in DOMAIN agents[turn'[t].self]
                 /\ turn'[t].cid = turn'[t].conversation_id
                 /\ turn'[t].messages = agents[turn'[t].self][turn'[t].cid]
                 /\ minted' = minted
            /\ ~turn'[t].found =>
                 /\ mode = "legacy" =>
                      turn'[t].conversation_id \notin DOMAIN agents[turn'[t].self]
                 /\ turn'[t].cid # NoId
                 /\ \A g \in DOMAIN agents : turn'[t].cid \notin DOMAIN agents[g]
                 /\ turn'[t].cid \notin CallerIds
                 /\ turn'[t].cid \in CallerIds'
       /\ AnsweredOnLLMPath(turn'[t]) =>
            /\ turn'[t].result.conversation_id = turn'[t].cid
            /\ turn'[t].found => turn'[t].result.conversation_id = turn'[t].conversation_id
            /\ turn[t].pc = "await_model" => turn'[t].cid = turn[t].cid]_vars

\* C16 witness: a caller supplied an id that is not a key of the store (an id
\* issued by a turn that stored nothing) and got a reply under a newly minted
\* id; another caller supplied a stored id and got the reply under it.
C16_Witness ==
  /\ mode = "legacy"
  /\ \E t \in Turns :
       /\ AnsweredOnLLMPath(turn[t]) /\ ~turn[t].found /\ turn[t].result.kind = "speech"
       /\ turn[t].conversation_id # NoId
       /\ turn[t].conversation_id \notin DOMAIN agents[turn[t].self]
       /\ turn[t].result.conversation_id # turn[t].conversation_id
       /\ turn[t].result.conversation_id \in DOMAIN agents[turn[t].self]
  /\ \E t \in Turns :
       /\ AnsweredOnLLMPath(turn[t]) /\ turn[t].found /\ turn[t].result.kind = "speech"
       /\ turn[t].result.conversation_id = turn[t].conversation_id

\* C17: no two turns await the model for the same conversation id at the
\* same time.
C17_OneModelCallPerId ==
  \A t, u \in Turns :
    t # u /\ turn[t].pc = "await_model" /\ turn[u].pc = "await_model"
      => turn[t].cid # turn[u].cid

\* A chat history in turn order: the prompt, then pairs of a user entry and
\* the assistant's reply to that utterance.
Chronological(messages) ==
  /\ Len(messages) >= 3
  /\ Len(messages) % 2 = 1
  /\ \A i \in 2..Len(messages) :
       IF i % 2 = 0
       THEN messages[i].role = "user"
       ELSE messages[i] = AssistantMsg(ReplyTo(messages[i - 1].content))

\* C18: in chat mode every stored history is chronological, after any
\* sequence of successful and failed turns (looked at when no turn is in
\* flight, every turn having run alone).
C18_HistoryIsChronological ==
  mode = "chat" /\ (\A t \in Turns : ~InFlight(t) /\ turn[t].solo)
    => \A c \in DOMAIN history : Chronological(Store[c])

\* C20: in legacy mode the request of a new conversation carries no
\* continuation token; a successful turn stores, under its conversation id,
\* exactly the token the server returned to it, with the system prompt as it
\* was; a turn on a stored id sends exactly the stored token, the stored
\* system prompt and its own utterance as prompt.
C20_ContinuationToken ==
  [][\A t \in Turns :
       /\ mode = "legacy" /\ Lookup(t) /\ turn'[t].pc = "await_model" =>
            LET req == turn'[t].request
                cid == turn'[t].cid
            IN /\ req.prompt = turn'[t].text
               /\ ~turn'[t].found =>
                    req.context = NoContext /\ req.system = RenderText(exposed)
               /\ turn'[t].found =>
                    /\ req.context = StoreOf(turn'[t].self)[cid].context
                    /\ req.system = StoreOf(turn'[t].self)[cid].system
                    /\ StoreAfter(turn'[t].self)[cid].context = req.context
                    /\ StoreAfter(turn'[t].self)[cid].system = req.system
       /\ mode = "legacy" /\ ModelCallSucceeds(t) =>
            LET req == turn[t].request
                cid == turn[t].cid
                stored == StoreAfter(turn[t].self)
            IN /\ cid \in DOMAIN stored
               /\ stored[cid].context = ContextAfter(req.context, req.prompt)
               /\ stored[cid].system = req.system
               /\ \A c \in DOMAIN agents[turn[t].self] \ {cid} :
                    stored[c] = StoreOf(turn[t].self)[c]]_vars

\* C20 witness: a second turn on a stored legacy session has succeeded, and
\* the session holds the token that follows from the first turn's token.
C20_Witness ==
  \E t \in Turns :
    /\ mode = "legacy" /\ turn[t].pc = "done" /\ turn[t].result.kind = "speech"
    /\ turn[t].found /\ turn[t].solo
    /\ turn[t].request.context # NoContext
    /\ StoreOf(turn[t].self)[turn[t].cid].context
         = ContextAfter(turn[t].request.context, turn[t].text)

\* C19: a session stored under a conversation id stays in the store of the
\* agent in service from then on: no step of a turn, no poll and no reload
\* removes a key or replaces the store.
C19_SessionsAreKept ==
  [][\A c \in DOMAIN history : c \in DOMAIN history']_vars

\* The steps of _call_builtin_agent a turn can be suspended at.
BuiltinSteps == {"get_agent", "recognize", "builtin_process"}

\* C21: when the default agent's processing ends in an error, whatever the
\* intent, the turn does not end with that error response.
C21_RecognizerErrorFallsThrough ==
  \A t \in Turns :
    turn[t].response_type = "error" =>
      ~(/\ turn[t].pc = "done"
        /\ turn[t].result = Builtin(turn[t].conversation_id, turn[t].content, "error"))

\* C22: the recognizer is consulted only with the intent handler "builtin",
\* and then before the turn has looked up a session, rendered a prompt or
\* called the model: with "builtin" a turn starts at the fallback, and only a
\* step of the fallback takes it to the LLM path; with any other handler a
\* turn is at the LLM path with its first step and never at the fallback.
C22_RecognizerFirstWhenEnabled ==
  [][\A t \in Turns :
       /\ turn[t].pc \in BuiltinSteps =>
            /\ mode = "chat" /\ intent_handler = "builtin"
            /\ turn[t].calls = 0 /\ turn[t].rendered = "none"
            /\ turn[t].messages = NoId /\ turn[t].cid = NoId /\ ~turn[t].found
       /\ turn[t].pc = "idle" /\ turn'[t].pc # "idle" =>
            IF mode = "chat" /\ intent_handler = "builtin"
            THEN /\ turn'[t].pc = "get_agent"
                 /\ turn'[t].calls = 0 /\ turn'[t].rendered = "none"
                 /\ UNCHANGED <<agents, heap, minted>>
            ELSE /\ turn'[t].intent = "none"
                 /\ turn'[t].pc = "await_model" \/ turn'[t].rendered = "TemplateError"
       /\ turn'[t].intent # "none" => mode = "chat" /\ intent_handler = "builtin"]_vars

\* C22 witness: with the handler "builtin" a turn was answered with an error
\* by the default agent for HassGetState, and now awaits the model.
C22_Witness ==
  \E t \in Turns :
    /\ intent_handler = "builtin" /\ turn[t].pc = "await_model"
    /\ turn[t].intent = "HassGetState" /\ turn[t].response_type = "error"
    /\ turn[t].calls = 1

C24_NoInterferenceAcrossIds ==
  [][\A g \in DOMAIN agents :
       /\ \A c \in DOMAIN agents[g] :
            /\ c \in DOMAIN agents'[g] /\ agents'[g][c] = agents[g][c]
            /\ StoreAfter(g)[c] # StoreOf(g)[c] =>
                 \E t \in Turns :
                   /\ turn'[t].self = g /\ turn'[t].cid = c /\ turn'[t].pc # turn[t].pc
                   /\ \/ /\ turn'[t].pc = "await_model"
                         /\ StoreAfter(g)[c] = WithUtterance(StoreOf(g)[c], turn'[t].text)
                         /\ turn'[t].request = Payload(StoreAfter(g)[c])
                      \/ /\ ModelCallSucceeds(t)
                         /\ heap'[turn[t].messages]
                              = WithReply(heap[turn[t].messages], turn'[t].result.speech,
                                          StoreAfter(g)[c].context)
       /\ \A c \in DOMAIN agents'[g] \ DOMAIN agents[g] :
            \E t \in Turns :
              /\ ModelCallSucceeds(t) /\ turn[t].self = g /\ turn[t].cid = c
              /\ agents'[g][c] = turn[t].messages
              /\ \A d \in DOMAIN agents[g] : agents[g][d] # turn[t].messages]_vars

\* C24 witness: two turns overlapped on two different stored sessions, and
\* both got their reply.
C24_Witness ==
  \E t, u \in Turns :
    /\ turn[t].pc = "done" /\ turn[u].pc = "done"
    /\ turn[t].result.kind = "speech" /\ turn[u].result.kind = "speech"
    /\ turn[t].self = turn[u].self /\ turn[t].cid # turn[u].cid
    /\ ~turn[t].solo /\ ~turn[u].solo
    /\ turn[t].cid \in DOMAIN agents[turn[t].self]
    /\ turn[u].cid \in DOMAIN agents[turn[u].self]

\* The stored object holds what a successful model call leaves in it.
HasReply(obj) ==
  IF mode = "chat" THEN \E i \in DOMAIN obj : obj[i].role = "assistant"
  ELSE obj.context # NoContext

\* C25: every key of a session store is an id the engine minted, never the
\* empty id or an id of the caller's choosing, and its session holds a
\* reply; a key is added only by the step in which the model call of the
\* turn that minted it succeeds. The id of a first turn that fails, at the
\* rendering or at the model call, is in no store, and a turn that supplies
\* an id that is no key gets another, newly minted id.
C25_KeysAreMintedAndAnswered ==
  [][/\ \A g \in DOMAIN agents : \A c \in DOMAIN agents[g] :
          /\ c \in 1..minted /\ c \notin {NoId, ForeignId}
          /\ HasReply(StoreOf(g)[c])
     /\ \A g \in DOMAIN agents : \A c \in DOMAIN agents'[g] \ DOMAIN agents[g] :
          \E t \in Turns :
            /\ ModelCallSucceeds(t) /\ turn[t].self = g /\ turn[t].cid = c
            /\ ~turn[t].found
            /\ \A u \in Turns \ {t} : turn[u].cid # c
     /\ \A t \in Turns :
          /\ ~turn'[t].found /\ turn'[t].pc = "done" /\ turn'[t].cid # NoId
               /\ turn'[t].result.kind # "speech"
             => \A g \in DOMAIN agents' : turn'[t].cid \notin DOMAIN agents'[g]
          /\ Lookup(t) /\ ~turn'[t].found =>
               /\ turn'[t].cid = minted' /\ minted' = minted + 1
               /\ turn[t].pc # "idle" => turn'[t].cid # turn[t].conversation_id
               /\ mode = "legacy" => turn'[t].cid # turn'[t].conversation_id]_vars

\* C25 witness: a turn that supplied an id of the caller's choosing got its
\* reply under a minted id, which is a key while the caller's id is none;
\* and an id minted earlier, by a turn that failed, is no key either.
C25_Witness ==
  \E t \in Turns :
    /\ mode = "legacy" /\ turn[t].pc = "done" /\ turn[t].result.kind = "speech"
    /\ turn[t].conversation_id = ForeignId
    /\ turn[t].cid \in DOMAIN agents[turn[t].self]
    /\ ForeignId \notin DOMAIN agents[turn[t].self]
    /\ \E c \in 1..minted : \A g \in DOMAIN agents : c \notin DOMAIN agents[g]

\* C26: an agent is registered only by a setup whose heartbeat returned
\* True; a setup whose heartbeat returned False, or raised an error of the
\* client, ends with ConfigEntryNotReady and registers no agent.
C26_SetupNeedsHeartbeat ==
  /\ agent # 0 => entry.heartbeat = Return("True") /\ entry.outcome = "ok"
  /\ entry.heartbeat = Return("False") \/ entry.heartbeat.raised # "none" =>
       /\ entry.outcome = "ConfigEntryNotReady"
       /\ agent = 0

====
